---- MODULE Spec2Model ----
(***************************************************************************)
(* The inventory server (src/server.js) over its relational store          *)
(* (schema: src/unnamed/part_002, migration: src/unnamed/part_001).        *)
(*                                                                         *)
(* The store holds three tables, items, services and links, keyed by       *)
(* server-generated ids that are never reused.  Every route handler is an  *)
(* async function: it runs from one `await prisma...` to the next without  *)
(* interruption, and handlers of concurrent requests interleave at those   *)
(* awaits.  Each action below is one such uninterrupted stretch: the code  *)
(* up to and including one store call, plus the response when the handler  *)
(* ends there.  Each store call is atomic (one SQLite statement or         *)
(* transaction), with the schema's foreign keys, cascades and unique index.*)
(* Timestamps (createdAt, updatedAt) are not modelled: no handler reads    *)
(* them.  The read-only GET handlers are not modelled.                     *)
(*                                                                         *)
(* Four specifications share the actions and differ in the requests the    *)
(* clients send: Spec (every handler, required fields present or absent),  *)
(* SpecLinks (the link handlers with all their values), SpecRace (the link *)
(* handlers, several suspended at a time), SpecValues (the handlers that   *)
(* write text fields, with empty texts).                                   *)
(***************************************************************************)
EXTENDS Integers, FiniteSets, Sequences, Bags, TLC

VARIABLES items, services, links, nextItem, nextService, nextLink, inflight, resp,
          limit

store == <<items, services, links>>
counters == <<nextItem, nextService, nextLink, limit>>
vars == <<items, services, links, nextItem, nextService, nextLink, inflight, resp,
         limit>>

\* ---------------------------------------------------------------- bounds
\* Rows ever created per table, services in the body of one POST
\* /api/inventory, and handlers suspended at a time (MaxRacing in SpecRace).
MaxItems == 2
MaxServices == 2
MaxLinks == 2
MaxInline == 1
MaxInFlight == 1
MaxRacing == 2

\* ---------------------------------------------------------------- values
\* A JSON body field that is absent reads as undefined in the handler.
Undefined == "<undefined>"
\* A nullable column with no value.
Null == "<null>"

\* Request values: a required text field is absent, empty or a text; an
\* optional one is absent or a text.
Names == {Undefined, "", "n"}
Types == {Undefined, "", "t"}
LinkTypes == {Undefined, "", "x", "y"}
Opts == {Undefined, "o"}

\* Ids are uuids, generated by the store and never reused: the n-th row of a
\* table has id n.  A request names an id that was generated, or 0, an id the
\* store never generates.
UnknownId == 0
ItemIds == UnknownId..nextItem
ServiceIds == UnknownId..nextService
LinkIds == UnknownId..nextLink

\* The linkedItemId of a POST .../links body: absent, or an id.
NoId == -1
LinkedIds == {NoId} \cup ItemIds

\* JavaScript `!v` for the values above: undefined and "" are falsy.
Falsy(v) == v = Undefined \/ v = ""

\* A nullable column written on create: undefined is stored as NULL.
OrNull(v) == IF v = Undefined THEN Null ELSE v

\* A column written on update: undefined leaves the column as it is.
OrKeep(v, old) == IF v = Undefined THEN old ELSE v

\* The `services` field of a POST /api/inventory body: absent, or an array.
ServiceInputs(N, O) == [name : N, imageUrl : O]
NoInline == [given |-> FALSE, list |-> <<>>]
InlineInputs(N, O) ==
  {NoInline} \cup
  {[given |-> TRUE, list |-> l] :
     l \in UNION {[1..n -> ServiceInputs(N, O)] : n \in 0..MaxInline}}

\* services ? services.map(...) : undefined
InlineList(svcs) == IF svcs.given THEN svcs.list ELSE <<>>
InlineLen(svcs) == Len(InlineList(svcs))

\* ---------------------------------------------------------------- responses
\* The response a step sends: the handler, the HTTP status, and the ids of the
\* link rows its body carries (the 409 of POST .../links carries the existing
\* link as the store holds it).
NoResp == [op |-> "none", status |-> 0, link |-> {}]
Resp(op, status) == [op |-> op, status |-> status, link |-> {}]
RespLink(op, status, l) == [op |-> op, status |-> status, link |-> {l}]

\* inflight is the bag of handlers suspended at an await, each with the
\* locals it still reads.  Suspend adds one, Resume takes one out.
Suspend(k) == inflight' = inflight (+) SetToBag({k})
Resume(k) == inflight' = inflight (-) SetToBag({k})
Suspended(k) == BagIn(k, inflight)

\* The server runs a handler only between responses: a response is sent
\* (Deliver) before the next request or continuation runs.
Ready == resp = NoResp
Deliver ==
  /\ resp # NoResp
  /\ resp' = NoResp
  /\ UNCHANGED <<items, services, links, nextItem, nextService, nextLink,
                 inflight, limit>>

\* limit is the number of handlers the clients let be suspended at a time (a
\* handler that answers before its first await is never suspended).
CanSuspend == BagCardinality(inflight) < limit

InitWith(n) ==
  /\ limit = n
  /\ items = <<>>
  /\ services = <<>>
  /\ links = <<>>
  /\ nextItem = 0
  /\ nextService = 0
  /\ nextLink = 0
  /\ inflight = EmptyBag
  /\ resp = NoResp

Init == InitWith(MaxInFlight)
InitRace == InitWith(MaxRacing)

\* ---------------------------------------------------------------- store
\* Restriction of a table to the rows whose id is in S.
Restrict(f, S) == [x \in S |-> f[x]]

\* Extension of a table by one row.
Insert(f, id, row) == [x \in DOMAIN f \cup {id} |-> IF x = id THEN row ELSE f[x]]

\* ON DELETE CASCADE of Service.inventoryItemId.
ServicesOf(id) == {s \in DOMAIN services : services[s].inventoryItemId = id}

\* ON DELETE CASCADE of ItemLink.sourceItemId and ItemLink.targetItemId.
LinksOf(id) ==
  {l \in DOMAIN links : links[l].sourceItemId = id \/ links[l].targetItemId = id}

\* ---------------------------------------------------------------- items
CreateItemInvalid_Both(name, type) == Falsy(name) /\ Falsy(type)

\* POST /api/inventory: the 400 guard.
CreateItemInvalid(name, type) == Falsy(name) \/ Falsy(type)

\* prisma.inventoryItem.create rejects a nested service without a name
\* (Service.name is a required column); the whole nested write fails.
InlineRejected(svcs) ==
  \E i \in 1..InlineLen(svcs) : InlineList(svcs)[i].name = Undefined

\* Whether the store has ids left for a create (the bound of the model).
CanCreateItem(svcs) ==
  nextItem < MaxItems /\ nextService + InlineLen(svcs) <= MaxServices

\* The rows the nested write of POST /api/inventory adds to Service.
InlineRows(svcs, id) ==
  [s \in (nextService + 1)..(nextService + InlineLen(svcs)) |->
     [name |-> InlineList(svcs)[s - nextService].name,
      imageUrl |-> OrNull(InlineList(svcs)[s - nextService].imageUrl),
      inventoryItemId |-> id]]

\* POST /api/inventory
CreateItem(name, type, ipAddress, svcs) ==
  /\ Ready
  /\ UNCHANGED inflight
  /\ IF CreateItemInvalid(name, type)
     THEN /\ resp' = Resp("createItem", 400)
          /\ UNCHANGED <<store, counters>>
     ELSE IF InlineRejected(svcs)
     THEN /\ resp' = Resp("createItem", 500)
          /\ UNCHANGED <<store, counters>>
     ELSE LET id == nextItem + 1
              rows == InlineRows(svcs, id)
          IN /\ CanCreateItem(svcs)
             /\ items' = Insert(items, id,
                   [name |-> name, type |-> type, ipAddress |-> OrNull(ipAddress)])
             /\ services' =
                  [s \in DOMAIN services \cup DOMAIN rows |->
                     IF s \in DOMAIN rows THEN rows[s] ELSE services[s]]
             /\ nextItem' = id
             /\ nextService' = nextService + InlineLen(svcs)
             /\ resp' = Resp("createItem", 201)
             /\ UNCHANGED <<links, nextLink, limit>>

\* prisma.inventoryItem.update: throws when no row has the id.
UpdateItemThrows(id) == id \notin DOMAIN items

UpdateItemFailStatus_NotFound == 404

\* The status PUT /api/inventory/:id answers when the store throws.
UpdateItemFailStatus == 500

\* PUT /api/inventory/:id
UpdateItem(id, name, type, ipAddress) ==
  /\ Ready
  /\ UNCHANGED inflight
  /\ IF UpdateItemThrows(id)
     THEN /\ resp' = Resp("updateItem", UpdateItemFailStatus)
          /\ UNCHANGED <<store, counters>>
     ELSE /\ items' = [items EXCEPT ![id] =
                         [name |-> OrKeep(name, @.name),
                          type |-> OrKeep(type, @.type),
                          ipAddress |-> OrKeep(ipAddress, @.ipAddress)]]
          /\ resp' = Resp("updateItem", 200)
          /\ UNCHANGED <<services, links, counters>>

\* prisma.inventoryItem.delete: throws when no row has the id.
DeleteItemThrows(id) == id \notin DOMAIN items

\* The status DELETE /api/inventory/:id answers when the store throws.
DeleteItemFailStatus == 500

\* The tables after DELETE FROM InventoryItem WHERE id = ..., with the cascades.
ItemsAfterDelete(id) == Restrict(items, DOMAIN items \ {id})
ServicesAfterDelete(id) == Restrict(services, DOMAIN services \ ServicesOf(id))
LinksAfterDelete_SourceOnly(id) ==
  Restrict(links, {l \in DOMAIN links : links[l].sourceItemId # id})

LinksAfterDelete(id) == Restrict(links, DOMAIN links \ LinksOf(id))

\* DELETE /api/inventory/:id
DeleteItem(id) ==
  /\ Ready
  /\ UNCHANGED inflight
  /\ IF DeleteItemThrows(id)
     THEN /\ resp' = Resp("deleteItem", DeleteItemFailStatus)
          /\ UNCHANGED <<store, counters>>
     ELSE /\ items' = ItemsAfterDelete(id)
          /\ services' = ServicesAfterDelete(id)
          /\ links' = LinksAfterDelete(id)
          /\ resp' = Resp("deleteItem", 200)
          /\ UNCHANGED counters

\* ---------------------------------------------------------------- services
ServiceCreateThrows_NoForeignKey(id) == FALSE

\* prisma.service.create with inventoryItem: {connect: {id}}: the foreign key
\* Service_inventoryItemId_fkey rejects an id that is no item.
ServiceCreateThrows(id) == id \notin DOMAIN items

\* The handler of POST /api/inventory/:id/services suspended at service.create.
AddServiceK(id, name, imageUrl) ==
  [pc |-> "addService_create", id |-> id, name |-> name, imageUrl |-> imageUrl]

\* POST /api/inventory/:id/services, up to the item lookup.
AddService(id, name, imageUrl) ==
  /\ Ready
  /\ UNCHANGED <<store, counters>>
  /\ IF Falsy(name)
     THEN resp' = Resp("addService", 400) /\ UNCHANGED inflight
     ELSE IF id \notin DOMAIN items
     THEN resp' = Resp("addService", 404) /\ UNCHANGED inflight
     ELSE /\ CanSuspend
          /\ resp' = NoResp
          /\ Suspend(AddServiceK(id, name, imageUrl))

\* POST /api/inventory/:id/services, prisma.service.create and the response.
AddServiceCreate(k) ==
  /\ Ready
  /\ k.pc = "addService_create"
  /\ Suspended(k)
  /\ Resume(k)
  /\ UNCHANGED <<items, links, nextItem, nextLink, limit>>
  /\ IF ServiceCreateThrows(k.id)
     THEN /\ resp' = Resp("addService", 500)
          /\ UNCHANGED <<services, nextService>>
     ELSE /\ nextService < MaxServices
          /\ services' = Insert(services, nextService + 1,
               [name |-> k.name, imageUrl |-> OrNull(k.imageUrl),
                inventoryItemId |-> k.id])
          /\ nextService' = nextService + 1
          /\ resp' = Resp("addService", 201)

\* prisma.service.findFirst({where: {id: serviceId, inventoryItemId: id}})
FindService(id, serviceId) ==
  {s \in DOMAIN services : s = serviceId /\ services[s].inventoryItemId = id}

\* The status the service handlers answer when findFirst finds nothing.
ServiceNotFoundStatus == 404

\* The handler of PUT .../services/:serviceId suspended at service.update.
UpdateServiceK(serviceId, name, imageUrl) ==
  [pc |-> "updateService_update", serviceId |-> serviceId, name |-> name,
   imageUrl |-> imageUrl]

\* PUT /api/inventory/:id/services/:serviceId, up to the lookup.
UpdateService(id, serviceId, name, imageUrl) ==
  /\ Ready
  /\ UNCHANGED <<store, counters>>
  /\ IF Falsy(name)
     THEN resp' = Resp("updateService", 400) /\ UNCHANGED inflight
     ELSE IF FindService(id, serviceId) = {}
     THEN resp' = Resp("updateService", ServiceNotFoundStatus) /\ UNCHANGED inflight
     ELSE /\ CanSuspend
          /\ resp' = NoResp
          /\ Suspend(UpdateServiceK(serviceId, name, imageUrl))

\* PUT /api/inventory/:id/services/:serviceId, prisma.service.update.
UpdateServiceWrite(k) ==
  /\ Ready
  /\ k.pc = "updateService_update"
  /\ Suspended(k)
  /\ Resume(k)
  /\ UNCHANGED <<items, links, counters>>
  /\ IF k.serviceId \notin DOMAIN services
     THEN resp' = Resp("updateService", 500) /\ UNCHANGED services
     ELSE /\ services' = [services EXCEPT ![k.serviceId] =
               [name |-> k.name,
                imageUrl |-> OrKeep(k.imageUrl, @.imageUrl),
                inventoryItemId |-> @.inventoryItemId]]
          /\ resp' = Resp("updateService", 200)

\* The handler of DELETE .../services/:serviceId suspended at service.delete.
RemoveServiceK(serviceId) == [pc |-> "removeService_delete", serviceId |-> serviceId]

\* DELETE /api/inventory/:id/services/:serviceId, up to the lookup.
RemoveService(id, serviceId) ==
  /\ Ready
  /\ UNCHANGED <<store, counters>>
  /\ IF FindService(id, serviceId) = {}
     THEN resp' = Resp("removeService", ServiceNotFoundStatus) /\ UNCHANGED inflight
     ELSE /\ CanSuspend
          /\ resp' = NoResp
          /\ Suspend(RemoveServiceK(serviceId))

\* DELETE /api/inventory/:id/services/:serviceId, prisma.service.delete.
RemoveServiceWrite(k) ==
  /\ Ready
  /\ k.pc = "removeService_delete"
  /\ Suspended(k)
  /\ Resume(k)
  /\ UNCHANGED <<items, links, counters>>
  /\ IF k.serviceId \notin DOMAIN services
     THEN resp' = Resp("removeService", 500) /\ UNCHANGED services
     ELSE /\ services' = Restrict(services, DOMAIN services \ {k.serviceId})
          /\ resp' = Resp("removeService", 200)

\* ---------------------------------------------------------------- links
FindLinkByPair_Reversed(id, linkedItemId) ==
  {l \in DOMAIN links :
     links[l].sourceItemId = linkedItemId /\ links[l].targetItemId = id}

FindLinkByPair_EitherWay(id, linkedItemId) ==
  {l \in DOMAIN links :
     \/ links[l].sourceItemId = id /\ links[l].targetItemId = linkedItemId
     \/ links[l].sourceItemId = linkedItemId /\ links[l].targetItemId = id}

\* prisma.itemLink.findFirst({where: {sourceItemId: id, targetItemId: linkedItemId}})
FindLinkByPair(id, linkedItemId) ==
  {l \in DOMAIN links :
     links[l].sourceItemId = id /\ links[l].targetItemId = linkedItemId}

\* prisma.itemLink.create: the foreign keys ItemLink_sourceItemId_fkey and
\* ItemLink_targetItemId_fkey, and the unique index
\* ItemLink_sourceItemId_targetItemId_key.
LinkForeignKeysFail(id, linkedItemId) ==
  id \notin DOMAIN items \/ linkedItemId \notin DOMAIN items
LinkUniqueFails_NoIndex(id, linkedItemId) == FALSE

LinkUniqueFails(id, linkedItemId) ==
  \E l \in DOMAIN links :
     links[l].sourceItemId = id /\ links[l].targetItemId = linkedItemId
LinkCreateThrows(id, linkedItemId) ==
  LinkForeignKeysFail(id, linkedItemId) \/ LinkUniqueFails(id, linkedItemId)

\* The handler of POST /api/inventory/:id/links suspended at one of its awaits:
\* the lookup of the target item (sourceItem is what the first lookup found),
\* the lookup of an existing link, the create.
AddLinkK(pc, id, linkedItemId, linkType, port, sourceItem) ==
  [pc |-> pc, id |-> id, linkedItemId |-> linkedItemId, linkType |-> linkType,
   port |-> port, sourceItem |-> sourceItem]

\* POST /api/inventory/:id/links, up to the lookup of the source item.
AddLink(id, linkedItemId, linkType, port) ==
  /\ Ready
  /\ UNCHANGED <<store, counters>>
  /\ IF linkedItemId = NoId
     THEN resp' = Resp("addLink", 400) /\ UNCHANGED inflight
     ELSE IF Falsy(linkType)
     THEN resp' = Resp("addLink", 400) /\ UNCHANGED inflight
     ELSE /\ CanSuspend
          /\ resp' = NoResp
          /\ Suspend(AddLinkK("addLink_target", id, linkedItemId, linkType, port,
                              id \in DOMAIN items))

\* POST /api/inventory/:id/links, the lookup of the target item and the 404.
AddLinkTarget(k) ==
  /\ Ready
  /\ k.pc = "addLink_target"
  /\ Suspended(k)
  /\ UNCHANGED <<store, counters>>
  /\ IF ~k.sourceItem \/ k.linkedItemId \notin DOMAIN items
     THEN resp' = Resp("addLink", 404) /\ Resume(k)
     ELSE /\ resp' = NoResp
          /\ inflight' = (inflight (-) SetToBag({k})) (+)
               SetToBag({[k EXCEPT !.pc = "addLink_find"]})

\* POST /api/inventory/:id/links, the lookup of an existing link and the 409.
AddLinkFind(k) ==
  /\ Ready
  /\ k.pc = "addLink_find"
  /\ Suspended(k)
  /\ UNCHANGED <<store, counters>>
  /\ LET existingLink == FindLinkByPair(k.id, k.linkedItemId)
     IN IF existingLink # {}
        THEN /\ \E l \in existingLink : resp' = RespLink("addLink", 409, l)
             /\ Resume(k)
        ELSE /\ resp' = NoResp
             /\ inflight' = (inflight (-) SetToBag({k})) (+)
                  SetToBag({[k EXCEPT !.pc = "addLink_create"]})

AddLinkFailStatus_Conflict == 409

\* The status POST /api/inventory/:id/links answers when the store throws.
AddLinkFailStatus == 500

\* POST /api/inventory/:id/links, prisma.itemLink.create and the response.
AddLinkCreate(k) ==
  /\ Ready
  /\ k.pc = "addLink_create"
  /\ Suspended(k)
  /\ Resume(k)
  /\ UNCHANGED <<items, services, nextItem, nextService, limit>>
  /\ IF LinkCreateThrows(k.id, k.linkedItemId)
     THEN resp' = Resp("addLink", AddLinkFailStatus) /\ UNCHANGED <<links, nextLink>>
     ELSE /\ nextLink < MaxLinks
          /\ links' = Insert(links, nextLink + 1,
               [linkType |-> k.linkType, port |-> OrNull(k.port),
                sourceItemId |-> k.id, targetItemId |-> k.linkedItemId])
          /\ nextLink' = nextLink + 1
          /\ resp' = Resp("addLink", 201)

FindLink_AnyParent(id, linkId) == {l \in DOMAIN links : l = linkId}

\* prisma.itemLink.findFirst({where: {id: linkId, sourceItemId: id}})
FindLink(id, linkId) ==
  {l \in DOMAIN links : l = linkId /\ links[l].sourceItemId = id}

\* The status the link handlers answer when findFirst finds nothing.
LinkNotFoundStatus == 404

\* The handler of PUT .../links/:linkId suspended at itemLink.update.
UpdateLinkK(linkId, linkType, port) ==
  [pc |-> "updateLink_update", linkId |-> linkId, linkType |-> linkType,
   port |-> port]

\* PUT /api/inventory/:id/links/:linkId, up to the lookup.
UpdateLink(id, linkId, linkType, port) ==
  /\ Ready
  /\ UNCHANGED <<store, counters>>
  /\ IF Falsy(linkType)
     THEN resp' = Resp("updateLink", 400) /\ UNCHANGED inflight
     ELSE IF FindLink(id, linkId) = {}
     THEN resp' = Resp("updateLink", LinkNotFoundStatus) /\ UNCHANGED inflight
     ELSE /\ CanSuspend
          /\ resp' = NoResp
          /\ Suspend(UpdateLinkK(linkId, linkType, port))

\* PUT /api/inventory/:id/links/:linkId, prisma.itemLink.update.
UpdateLinkWrite(k) ==
  /\ Ready
  /\ k.pc = "updateLink_update"
  /\ Suspended(k)
  /\ Resume(k)
  /\ UNCHANGED <<items, services, counters>>
  /\ IF k.linkId \notin DOMAIN links
     THEN resp' = Resp("updateLink", 500) /\ UNCHANGED links
     ELSE /\ links' = [links EXCEPT ![k.linkId] =
               [linkType |-> k.linkType, port |-> OrKeep(k.port, @.port),
                sourceItemId |-> @.sourceItemId, targetItemId |-> @.targetItemId]]
          /\ resp' = Resp("updateLink", 200)

\* The handler of DELETE .../links/:linkId suspended at itemLink.delete.
RemoveLinkK(linkId) == [pc |-> "removeLink_delete", linkId |-> linkId]

\* DELETE /api/inventory/:id/links/:linkId, up to the lookup.
RemoveLink(id, linkId) ==
  /\ Ready
  /\ UNCHANGED <<store, counters>>
  /\ IF FindLink(id, linkId) = {}
     THEN resp' = Resp("removeLink", LinkNotFoundStatus) /\ UNCHANGED inflight
     ELSE /\ CanSuspend
          /\ resp' = NoResp
          /\ Suspend(RemoveLinkK(linkId))

\* DELETE /api/inventory/:id/links/:linkId, prisma.itemLink.delete.
RemoveLinkWrite(k) ==
  /\ Ready
  /\ k.pc = "removeLink_delete"
  /\ Suspended(k)
  /\ Resume(k)
  /\ UNCHANGED <<items, services, counters>>
  /\ IF k.linkId \notin DOMAIN links
     THEN resp' = Resp("removeLink", 500) /\ UNCHANGED links
     ELSE /\ links' = Restrict(links, DOMAIN links \ {k.linkId})
          /\ resp' = Resp("removeLink", 200)

\* ---------------------------------------------------------------- specifications
InFlight == BagToSet(inflight)

\* The requests and handler steps, with request values drawn from N (names),
\* T (types), L (link types) and O (optional fields).
ItemSteps(N, T, O) ==
  \/ \E name \in N, type \in T, ip \in O, svcs \in InlineInputs(N, O) :
       CreateItem(name, type, ip, svcs)
  \/ \E id \in ItemIds, name \in N, type \in T, ip \in O :
       UpdateItem(id, name, type, ip)
  \/ \E id \in ItemIds : DeleteItem(id)

ServiceSteps(N, O) ==
  \/ \E id \in ItemIds, name \in N, img \in O : AddService(id, name, img)
  \/ \E k \in InFlight : AddServiceCreate(k)
  \/ \E id \in ItemIds, sid \in ServiceIds, name \in N, img \in O :
       UpdateService(id, sid, name, img)
  \/ \E k \in InFlight : UpdateServiceWrite(k)
  \/ \E id \in ItemIds, sid \in ServiceIds : RemoveService(id, sid)
  \/ \E k \in InFlight : RemoveServiceWrite(k)

LinkSteps(L, O) ==
  \/ \E id \in ItemIds, linked \in LinkedIds, lt \in L, port \in O :
       AddLink(id, linked, lt, port)
  \/ \E k \in InFlight : AddLinkTarget(k)
  \/ \E k \in InFlight : AddLinkFind(k)
  \/ \E k \in InFlight : AddLinkCreate(k)
  \/ \E id \in ItemIds, l \in LinkIds, lt \in L, port \in O :
       UpdateLink(id, l, lt, port)
  \/ \E k \in InFlight : UpdateLinkWrite(k)
  \/ \E id \in ItemIds, l \in LinkIds : RemoveLink(id, l)
  \/ \E k \in InFlight : RemoveLinkWrite(k)

\* Every handler, each required field present or absent, one handler
\* suspended at a time (the others run between its awaits).
BasicNames == {Undefined, "n"}
BasicTypes == {Undefined, "t"}
BasicLinkTypes == {Undefined, "x"}
NoOpts == {Undefined}
BasicInline == InlineInputs(BasicNames, NoOpts)

Next ==
  \/ ItemSteps(BasicNames, BasicTypes, NoOpts)
  \/ ServiceSteps(BasicNames, NoOpts)
  \/ LinkSteps(BasicLinkTypes, NoOpts)
  \/ Deliver

Spec == Init /\ [][Next]_vars

\* The link handlers with all their request values.
NextLinks ==
  \/ CreateItem("n", "t", Undefined, NoInline)
  \/ \E id \in ItemIds : DeleteItem(id)
  \/ LinkSteps(LinkTypes, Opts)
  \/ Deliver

SpecLinks == Init /\ [][NextLinks]_vars

\* The link handlers racing: MaxRacing handlers suspended at a time.
NextRace ==
  \/ CreateItem("n", "t", Undefined, NoInline)
  \/ \E id \in ItemIds : DeleteItem(id)
  \/ LinkSteps(BasicLinkTypes, NoOpts)
  \/ Deliver

SpecRace == InitRace /\ [][NextRace]_vars

\* The handlers that write text fields, with all the values of those fields.
InlineValues == InlineInputs(Names, {Undefined})
NextValues ==
  \/ \E name \in Names, type \in Types, svcs \in InlineValues :
       CreateItem(name, type, Undefined, svcs)
  \/ \E id \in ItemIds, name \in Names, type \in Types :
       UpdateItem(id, name, type, Undefined)
  \/ \E id \in ItemIds, name \in Names : AddService(id, name, Undefined)
  \/ \E k \in InFlight : AddServiceCreate(k)
  \/ \E id \in ItemIds, sid \in ServiceIds, name \in Names :
       UpdateService(id, sid, name, Undefined)
  \/ \E k \in InFlight : UpdateServiceWrite(k)
  \/ \E id \in ItemIds, linked \in LinkedIds, lt \in {Undefined, "", "x"} :
       AddLink(id, linked, lt, Undefined)
  \/ \E k \in InFlight : AddLinkTarget(k)
  \/ \E k \in InFlight : AddLinkFind(k)
  \/ \E k \in InFlight : AddLinkCreate(k)
  \/ \E id \in ItemIds, l \in LinkIds, lt \in {Undefined, "", "x"} :
       UpdateLink(id, l, lt, Undefined)
  \/ \E k \in InFlight : UpdateLinkWrite(k)
  \/ Deliver

SpecValues == Init /\ [][NextValues]_vars
\* ---------------------------------------------------------------- properties
\* The stored links from a to b, read off the table.
PairLinks(a, b) ==
  {l \in DOMAIN links : links[l].sourceItemId = a /\ links[l].targetItemId = b}

\* The handlers suspended at itemLink.create for the pair (a, b), with copies.
CreatesPending(a, b) ==
  LET S == {k \in InFlight :
              k.pc = "addLink_create" /\ k.id = a /\ k.linkedItemId = b}
      count[T \in SUBSET S] ==
        IF T = {} THEN 0
        ELSE LET k == CHOOSE x \in T : TRUE
             IN CopiesIn(k, inflight) + count[T \ {k}]
  IN count[S]

\* C1: in every reachable state there is at most one link per ordered
\* (sourceItemId, targetItemId) pair, also when the lookups and the creates of
\* several POST .../links requests interleave.
C1_OneLinkPerPair ==
  \A l1, l2 \in DOMAIN links :
     (/\ links[l1].sourceItemId = links[l2].sourceItemId
      /\ links[l1].targetItemId = links[l2].targetItemId) => l1 = l2

\* A handler is suspended at itemLink.create for a pair that got its link
\* after the handler's lookup: only the unique index stands in the way.
C1_Witness ==
  \E k \in InFlight :
     k.pc = "addLink_create" /\ PairLinks(k.id, k.linkedItemId) # {}

\* C2: a successful DELETE /inventory/:id of item x leaves no item x, no
\* service of x and no link from or to x, and leaves every other item, every
\* service of another item and every link with neither end at x as they were.
C2_DeleteCascades ==
  [][resp'.op = "deleteItem" => \A x \in DOMAIN items : DeleteItem(x) =>
       /\ resp' = Resp("deleteItem", 200)
       /\ DOMAIN items' = DOMAIN items \ {x}
       /\ \A i \in DOMAIN items' : items'[i] = items[i]
       /\ DOMAIN services' =
            {v \in DOMAIN services : services[v].inventoryItemId # x}
       /\ \A v \in DOMAIN services' : services'[v] = services[v]
       /\ DOMAIN links' =
            {l \in DOMAIN links :
               links[l].sourceItemId # x /\ links[l].targetItemId # x}
       /\ \A l \in DOMAIN links' : links'[l] = links[l]]_vars

\* An item was just deleted; a service and a link that were its own are gone
\* (every remaining row is another item's), and rows of another item remain.
C2_Witness ==
  /\ resp = Resp("deleteItem", 200)
  /\ items # <<>> /\ services # <<>> /\ links # <<>>
  /\ Cardinality(DOMAIN services) < nextService
  /\ Cardinality(DOMAIN links) < nextLink
  /\ inflight = EmptyBag

\* C3: when the handler of POST .../links looks for an existing link and the
\* pair (id, linkedItemId) has one, it answers 409 with that link, creates no
\* row and leaves every link as it was, whatever linkType and port it got.
C3_DuplicateIs409 ==
  [][\A k \in InFlight :
       (AddLinkFind(k) /\ PairLinks(k.id, k.linkedItemId) # {}) =>
         /\ resp'.op = "addLink" /\ resp'.status = 409
         /\ resp'.link = PairLinks(k.id, k.linkedItemId)
         /\ links' = links
         /\ nextLink' = nextLink]_vars

\* A 409 was just answered, carrying a stored link.
C3_Witness ==
  /\ resp.op = "addLink" /\ resp.status = 409
  /\ resp.link # {} /\ resp.link \subseteq DOMAIN links

\* C4: a link b -> a never stands in the way of a link a -> b: the lookup
\* answers no 409 and the create 201 when a -> b itself is not stored; and
\* updating or removing a link leaves every other link as it was.
C4_Directional ==
  [][\A k \in InFlight :
       /\ (AddLinkFind(k) /\ PairLinks(k.id, k.linkedItemId) = {}) =>
            /\ resp' = NoResp
            /\ BagIn([k EXCEPT !.pc = "addLink_create"], inflight')
       /\ (/\ AddLinkCreate(k)
           /\ PairLinks(k.id, k.linkedItemId) = {}
           /\ k.id \in DOMAIN items /\ k.linkedItemId \in DOMAIN items) =>
            /\ resp' = Resp("addLink", 201)
            /\ \E l \in DOMAIN links' \ DOMAIN links :
                 /\ links'[l].sourceItemId = k.id
                 /\ links'[l].targetItemId = k.linkedItemId
            /\ \A l \in DOMAIN links : l \in DOMAIN links' /\ links'[l] = links[l]
       /\ (UpdateLinkWrite(k) \/ RemoveLinkWrite(k)) =>
            \A l \in DOMAIN links \ {k.linkId} :
               l \in DOMAIN links' /\ links'[l] = links[l]]_vars

\* Links a -> b and b -> a, a # b, are both stored, the second just created.
C4_Witness ==
  /\ resp = Resp("addLink", 201)
  /\ \E l1, l2 \in DOMAIN links :
       /\ links[l1].sourceItemId # links[l1].targetItemId
       /\ links[l2].sourceItemId = links[l1].targetItemId
       /\ links[l2].targetItemId = links[l1].sourceItemId

\* Whether service v exists and belongs to item id; likewise link l and its
\* source item.
OwnedService(id, v) == v \in DOMAIN services /\ services[v].inventoryItemId = id
OwnedLink(id, l) == l \in DOMAIN links /\ links[l].sourceItemId = id

\* A step in which a handler answers as op or gets suspended: every first
\* step of the handler op is one.
AnswersOrSuspends(op) ==
  resp'.op = op \/ BagCardinality(inflight') > BagCardinality(inflight)

\* C5 as claimed: a request on a service (link) that does not exist, or not
\* under the item of the path, is answered 404 and changes no row.
C5_WrongParentIs404 ==
  [][/\ AnswersOrSuspends("updateService") =>
          \A id \in ItemIds, v \in ServiceIds, name \in BasicNames :
             (~OwnedService(id, v) /\ UpdateService(id, v, name, Undefined)) =>
                resp'.status = 404 /\ UNCHANGED store
     /\ AnswersOrSuspends("removeService") =>
          \A id \in ItemIds, v \in ServiceIds :
             (~OwnedService(id, v) /\ RemoveService(id, v)) =>
                resp'.status = 404 /\ UNCHANGED store
     /\ AnswersOrSuspends("updateLink") =>
          \A id \in ItemIds, l \in LinkIds, lt \in BasicLinkTypes :
             (~OwnedLink(id, l) /\ UpdateLink(id, l, lt, Undefined)) =>
                resp'.status = 404 /\ UNCHANGED store
     /\ AnswersOrSuspends("removeLink") =>
          \A id \in ItemIds, l \in LinkIds :
             (~OwnedLink(id, l) /\ RemoveLink(id, l)) =>
                resp'.status = 404 /\ UNCHANGED store]_vars

\* C5 as the code has it: the update handlers check the body first, so the
\* answer is 400 when name (linkType) is absent or empty, and 404 otherwise;
\* no row changes and no handler stays suspended either way.
C5_WrongParentIs404Or400 ==
  [][/\ AnswersOrSuspends("updateService") =>
          \A id \in ItemIds, v \in ServiceIds, name \in BasicNames :
             (~OwnedService(id, v) /\ UpdateService(id, v, name, Undefined)) =>
                /\ resp' = Resp("updateService",
                                IF name \in {Undefined, ""} THEN 400 ELSE 404)
                /\ UNCHANGED <<store, inflight>>
     /\ AnswersOrSuspends("removeService") =>
          \A id \in ItemIds, v \in ServiceIds :
             (~OwnedService(id, v) /\ RemoveService(id, v)) =>
                resp' = Resp("removeService", 404) /\ UNCHANGED <<store, inflight>>
     /\ AnswersOrSuspends("updateLink") =>
          \A id \in ItemIds, l \in LinkIds, lt \in BasicLinkTypes :
             (~OwnedLink(id, l) /\ UpdateLink(id, l, lt, Undefined)) =>
                /\ resp' = Resp("updateLink",
                                IF lt \in {Undefined, ""} THEN 400 ELSE 404)
                /\ UNCHANGED <<store, inflight>>
     /\ AnswersOrSuspends("removeLink") =>
          \A id \in ItemIds, l \in LinkIds :
             (~OwnedLink(id, l) /\ RemoveLink(id, l)) =>
                resp' = Resp("removeLink", 404) /\ UNCHANGED <<store, inflight>>]_vars

\* A link between two items is stored, no link was ever deleted, and a PUT
\* on a link was just answered 404.
C5_Witness ==
  /\ resp = Resp("updateLink", 404)
  /\ \E l \in DOMAIN links : links[l].sourceItemId # links[l].targetItemId
  /\ Cardinality(DOMAIN links) = nextLink

\* C6: POST /inventory without name or without type is answered 400 and
\* changes nothing, with or without a services array in the body.
C6_InvalidCreateIs400 ==
  [][resp'.op = "createItem" =>
     \A name \in BasicNames, type \in BasicTypes, svcs \in BasicInline :
       (/\ CreateItem(name, type, Undefined, svcs)
        /\ (name = Undefined \/ type = Undefined)) =>
          /\ resp' = Resp("createItem", 400)
          /\ UNCHANGED <<store, nextItem, nextService, nextLink, inflight>>]_vars

\* A POST /inventory was just answered 400 by a store that holds rows.
C6_Witness ==
  resp = Resp("createItem", 400) /\ items # <<>> /\ services # <<>>

\* C7: PUT and DELETE /inventory/:id for an id that is no stored item are
\* answered 500 and change nothing.
C7_MissingItemIs500 ==
  [][resp'.op \in {"updateItem", "deleteItem"} =>
     \A id \in ItemIds \ DOMAIN items :
       /\ \A name \in BasicNames, type \in BasicTypes :
            UpdateItem(id, name, type, Undefined) =>
              resp' = Resp("updateItem", 500) /\ UNCHANGED store
       /\ DeleteItem(id) =>
            resp' = Resp("deleteItem", 500) /\ UNCHANGED store]_vars

\* A PUT was just answered 500 by a store that holds rows.
C7_Witness ==
  resp = Resp("updateItem", 500) /\ items # <<>> /\ services # <<>> /\ links # <<>>

\* C8: of the handlers of POST .../links suspended at the create for one pair
\* whose items both exist, the one that runs while the pair has no link
\* creates it and answers 201, leaving the others suspended; one that runs
\* while the pair has a link answers 500 and creates nothing; either way the
\* pair has exactly one link afterwards.
C8_RaceLoserIs500 ==
  [][\A k \in InFlight :
       (/\ AddLinkCreate(k)
        /\ k.id \in DOMAIN items /\ k.linkedItemId \in DOMAIN items) =>
          /\ Cardinality(PairLinks(k.id, k.linkedItemId)') = 1
          /\ CreatesPending(k.id, k.linkedItemId)' =
               CreatesPending(k.id, k.linkedItemId) - 1
          /\ IF PairLinks(k.id, k.linkedItemId) = {}
             THEN resp' = Resp("addLink", 201)
             ELSE resp' = Resp("addLink", 500) /\ links' = links]_vars

\* No item was ever deleted, so the 500 just answered to POST .../links is the
\* unique index refusing the second create of a race.
C8_Witness ==
  /\ resp = Resp("addLink", 500)
  /\ Cardinality(DOMAIN items) = nextItem
  /\ links # <<>>

\* Every service belongs to a stored item and every link joins stored items.
ReferentialIntegrity ==
  /\ \A v \in DOMAIN services : services[v].inventoryItemId \in DOMAIN items
  /\ \A l \in DOMAIN links :
       links[l].sourceItemId \in DOMAIN items /\ links[l].targetItemId \in DOMAIN items

\* C9: referential integrity holds in every reachable state; a create that
\* runs after its item was deleted is answered 500 and stores nothing.
C9_ReferentialIntegrity ==
  /\ []ReferentialIntegrity
  /\ [][\A k \in InFlight :
          /\ (AddServiceCreate(k) /\ k.id \notin DOMAIN items) =>
               resp' = Resp("addService", 500) /\ UNCHANGED store
          /\ (/\ AddLinkCreate(k)
              /\ (k.id \notin DOMAIN items \/ k.linkedItemId \notin DOMAIN items)) =>
               resp' = Resp("addLink", 500) /\ UNCHANGED store]_vars

\* A POST .../services was just answered 500: its item was deleted between
\* the lookup and the create.
C9_Witness == resp = Resp("addService", 500)

\* C10 as claimed: in every reachable state every item has a non-empty name
\* and type, every service a non-empty name, every link a non-empty linkType.
C10_RequiredFieldsNonEmpty ==
  /\ \A i \in DOMAIN items : items[i].name # "" /\ items[i].type # ""
  /\ \A v \in DOMAIN services : services[v].name # ""
  /\ \A l \in DOMAIN links : links[l].linkType # ""
====
